---- MODULE Spec2Model ----
(***************************************************************************)
(* InodeStore (src/src/store/InodeStore.ts): the MobX store that mirrors   *)
(* the sync progress of an InodeDatabase and caches one page of query      *)
(* results.  Every asynchronous call into the database is a record in      *)
(* `inflight` from its dispatch until the database settles it; the part of *)
(* each method before its `await` is one action, the part after it is      *)
(* another.                                                                *)
(***************************************************************************)
EXTENDS Integers, Sequences, FiniteSets

VARIABLES
    searchResults,        \* InodeStore.searchResults
    pages,                \* InodeStore.pages
    resultsPerPage,       \* InodeStore.resultsPerPage
    inodesSynced,         \* InodeStore.inodesSynced
    totalInodesToSync,    \* InodeStore.totalInodesToSync
    inflight,             \* database promises not yet settled, in dispatch order
    subscriptions,        \* callbacks registered through db.startSync
    initCalls,            \* number of init() calls made so far
    unhandled,            \* rejections of initiator() promises nobody holds
    delivered,            \* last snapshot the database handed over on a success path
    lastOp                \* what the last step was and how it ended for its caller

vars == <<searchResults, pages, resultsPerPage, inodesSynced, totalInodesToSync,
          inflight, subscriptions, initCalls, unhandled, delivered, lastOp>>

----------------------------------------------------------------------------
\* Bounds of the model.

MaxPageSize == 2      \* page sizes 1..MaxPageSize
MaxPage     == 1      \* page indices 0..MaxPage
MaxTotal    == 3      \* totals 0..MaxTotal reported by a query
MaxInflight == 2      \* database promises pending at the same time
MaxInits    == 1      \* calls of init()

\* The IEEE value Infinity of `totalInodesToSync: number = Infinity`; it is
\* only ever compared, never computed with.
Infinity == -1

IsFinite(x) == x /= Infinity

\* a <= b on numbers that may be Infinity
Leq(a, b) == \/ b = Infinity
             \/ a /= Infinity /\ a <= b

PageSizes == 1..MaxPageSize
PageIndices == 0..MaxPage
Totals == 0..MaxTotal
\* counters a snapshot may carry (the values of scenario A)
Counts == {5, 20}
Queries == {"a"}

\* Inode[] values the database may return
DataSets == {<<>>, <<"i2", "i1">>}

\* {numSynced, total} as returned by getSyncState and passed to the callback
Snapshots == [numSynced : Counts, total : Counts]

NoSnapshot == [numSynced |-> 0, total |-> 0]
NoCall == [kind |-> "none", query |-> "", page |-> 0,
           argQuery |-> "", limit |-> 0, offset |-> 0]

RemoveAt(s, i) == SubSeq(s, 1, i - 1) \o SubSeq(s, i + 1, Len(s))

----------------------------------------------------------------------------
\* Pure parts of the methods.

\* const limit = this.resultsPerPage
Limit(P) == P

OffsetOneBased(P, page) == P * (page + 1)

\* const offset = this.resultsPerPage * params.page
Offset(P, page) == P * page

PageCountFloor(total, P) == total \div P

\* Math.ceil(total / resultsPerPage), for total >= 0 and resultsPerPage > 0
PageCount(total, P) ==
    IF total % P = 0 THEN total \div P ELSE (total \div P) + 1

isDbSyncingByName == inodesSynced /= totalInodesToSync

\* get isDbSyncing(): inodesSynced === totalInodesToSync
isDbSyncing == inodesSynced = totalInodesToSync

InitialResultsZero == [searchResults |-> <<>>, pages |-> 0]

\* Field initializers of the class
InitialResults == [searchResults |-> <<>>, pages |-> 1]
InitialSync == [inodesSynced |-> 0, totalInodesToSync |-> Infinity]

updateSyncProgressSwapped(params) == <<params.totalInodes, params.inodesSynced>>

updateSyncProgressPartial(params) == <<params.inodesSynced, totalInodesToSync>>

updateSyncProgressLatched(params) ==
    IF inodesSynced = totalInodesToSync
    THEN <<inodesSynced, totalInodesToSync>>
    ELSE <<params.inodesSynced, params.totalInodes>>

\* updateSyncProgress: the new <<inodesSynced, totalInodesToSync>>
updateSyncProgress(params) == <<params.inodesSynced, params.totalInodes>>

\* updateSearchResults: the new <<searchResults, pages>>
updateSearchResults(params, P) == <<params.data, PageCount(params.total, P)>>

\* the assignment of clear() after its await: the new <<searchResults, pages>>
clearResults(results, pageCount) == <<(<<>>), pageCount>>

\* A step: the operation; what the database did (db: "none" for a dispatch,
\* "resolved" / "rejected" for a promise, "error" / "event" for a callback
\* with / without err); how it ended for whoever waits on the store
\* (outcome); the dispatch position of the promise it settled (0 when it
\* settled none); the payload the database passed; what the step came after
\* (after: see Overtaken and WasComplete).
Op(op, db, outcome, index) ==
    [op |-> op, db |-> db, outcome |-> outcome, index |-> index,
     hasState |-> FALSE, snap |-> NoSnapshot, data |-> <<>>, total |-> 0,
     after |-> "none"]

\* For the query pending at position i that resolves now: "query" / "clear"
\* when the step before resolved a search / latest / clearData call that
\* was dispatched after it (it stood behind position i), else "none".
Overtaken(i) ==
    IF lastOp.db = "resolved" /\ lastOp.op \in {"query", "clear"}
       /\ lastOp.index > i
    THEN lastOp.op
    ELSE "none"

\* For a snapshot applied now: "complete" when the getter held before it.
WasComplete == IF isDbSyncing THEN "complete" ELSE "none"

----------------------------------------------------------------------------
Init ==
    /\ searchResults = InitialResults.searchResults
    /\ pages = InitialResults.pages
    /\ resultsPerPage \in PageSizes
    /\ inodesSynced = InitialSync.inodesSynced
    /\ totalInodesToSync = InitialSync.totalInodesToSync
    /\ inflight = <<>>
    /\ subscriptions = 0
    /\ initCalls = 0
    /\ unhandled = 0
    /\ delivered = [numSynced |-> InitialSync.inodesSynced,
                    total |-> InitialSync.totalInodesToSync]
    /\ lastOp = Op("construct", "none", "returned", 0)

CallInitSubscribesFirst ==
    /\ initCalls < MaxInits
    /\ Len(inflight) < MaxInflight
    /\ initCalls' = initCalls + 1
    /\ subscriptions' = subscriptions + 1
    /\ inflight' = Append(inflight, [NoCall EXCEPT !.kind = "getSyncState"])
    /\ lastOp' = Op("init", "none", "returned", 0)
    /\ UNCHANGED <<searchResults, pages, resultsPerPage, inodesSynced,
                   totalInodesToSync, unhandled, delivered>>

\* init(): calls initiator() and returns void at once; initiator runs up to
\* its await of db.getSyncState() and its promise is dropped.
CallInit ==
    /\ initCalls < MaxInits
    /\ Len(inflight) < MaxInflight
    /\ initCalls' = initCalls + 1
    /\ inflight' = Append(inflight, [NoCall EXCEPT !.kind = "getSyncState"])
    /\ lastOp' = Op("init", "none", "returned", 0)
    /\ UNCHANGED <<searchResults, pages, resultsPerPage, inodesSynced,
                   totalInodesToSync, subscriptions, unhandled, delivered>>

\* db.getSyncState() resolves with syncState: initiator applies it and
\* registers the callback with db.startSync.
GetSyncStateResolve(i, syncState) ==
    /\ inflight[i].kind = "getSyncState"
    /\ LET new == updateSyncProgress([inodesSynced |-> syncState.numSynced,
                                      totalInodes |-> syncState.total])
       IN /\ inodesSynced' = new[1]
          /\ totalInodesToSync' = new[2]
    /\ subscriptions' = subscriptions + 1
    /\ delivered' = syncState
    /\ inflight' = RemoveAt(inflight, i)
    /\ lastOp' = [Op("getSyncState", "resolved", "applied", i)
                    EXCEPT !.hasState = TRUE, !.snap = syncState]
    /\ UNCHANGED <<searchResults, pages, resultsPerPage, initCalls, unhandled>>

\* db.getSyncState() rejects: the await throws inside initiator, whose
\* promise `initiator();` dropped; init() returned void before, so the
\* rejection has no handler.
GetSyncStateReject(i) ==
    /\ inflight[i].kind = "getSyncState"
    /\ unhandled' = unhandled + 1
    /\ inflight' = RemoveAt(inflight, i)
    /\ lastOp' = Op("getSyncState", "rejected", "unhandledRejection", i)
    /\ UNCHANGED <<searchResults, pages, resultsPerPage, inodesSynced,
                   totalInodesToSync, subscriptions, initCalls, delivered>>

SyncEventIgnoresMissing(err, hasState, syncState) ==
    /\ subscriptions > 0
    /\ IF err
       THEN /\ lastOp' = [Op("syncEvent", "error", "warned", 0)
                            EXCEPT !.hasState = hasState]
            /\ UNCHANGED <<inodesSynced, totalInodesToSync, delivered>>
       ELSE IF ~hasState
       THEN /\ lastOp' = Op("syncEvent", "event", "ignored", 0)
            /\ UNCHANGED <<inodesSynced, totalInodesToSync, delivered>>
       ELSE /\ inodesSynced' = syncState.numSynced
            /\ totalInodesToSync' = syncState.total
            /\ delivered' = syncState
            /\ lastOp' = [Op("syncEvent", "event", "applied", 0)
                            EXCEPT !.hasState = TRUE, !.snap = syncState,
                                   !.after = WasComplete]
    /\ UNCHANGED <<searchResults, pages, resultsPerPage, inflight,
                   subscriptions, initCalls, unhandled>>

SyncEventStateFirst(err, hasState, syncState) ==
    /\ subscriptions > 0
    /\ IF hasState
       THEN /\ inodesSynced' = syncState.numSynced
            /\ totalInodesToSync' = syncState.total
            /\ delivered' = syncState
            /\ lastOp' = [Op("syncEvent", IF err THEN "error" ELSE "event",
                             "applied", 0)
                            EXCEPT !.hasState = TRUE, !.snap = syncState]
       ELSE /\ lastOp' = Op("syncEvent", IF err THEN "error" ELSE "event",
                            IF err THEN "warned" ELSE "thrown", 0)
            /\ UNCHANGED <<inodesSynced, totalInodesToSync, delivered>>
    /\ UNCHANGED <<searchResults, pages, resultsPerPage, inflight,
                   subscriptions, initCalls, unhandled>>

\* The callback given to db.startSync, called with (err, syncState);
\* hasState = FALSE is syncState undefined.
SyncEvent(err, hasState, syncState) ==
    /\ subscriptions > 0
    /\ IF err
       THEN \* console.warn(...); return
            /\ lastOp' = [Op("syncEvent", "error", "warned", 0)
                            EXCEPT !.hasState = hasState]
            /\ UNCHANGED <<inodesSynced, totalInodesToSync, delivered>>
       ELSE IF ~hasState
       THEN \* throw Error("Result must exist")
            /\ lastOp' = Op("syncEvent", "event", "thrown", 0)
            /\ UNCHANGED <<inodesSynced, totalInodesToSync, delivered>>
       ELSE /\ LET new == updateSyncProgress(
                              [inodesSynced |-> syncState.numSynced,
                               totalInodes |-> syncState.total])
               IN /\ inodesSynced' = new[1]
                  /\ totalInodesToSync' = new[2]
            /\ delivered' = syncState
            /\ lastOp' = [Op("syncEvent", "event", "applied", 0)
                            EXCEPT !.hasState = TRUE, !.snap = syncState,
                                   !.after = WasComplete]
    /\ UNCHANGED <<searchResults, pages, resultsPerPage, inflight,
                   subscriptions, initCalls, unhandled>>

\* search(params) up to its await of db.search(params.query, limit, offset)
CallSearch(query, page) ==
    /\ Len(inflight) < MaxInflight
    /\ inflight' = Append(inflight,
                          [kind |-> "search", query |-> query, page |-> page,
                           argQuery |-> query,
                           limit |-> Limit(resultsPerPage),
                           offset |-> Offset(resultsPerPage, page)])
    /\ lastOp' = Op("search", "none", "pending", 0)
    /\ UNCHANGED <<searchResults, pages, resultsPerPage, inodesSynced,
                   totalInodesToSync, subscriptions, initCalls, unhandled,
                   delivered>>

\* getLatest(params) up to its await of db.latest(limit, offset)
CallGetLatest(page) ==
    /\ Len(inflight) < MaxInflight
    /\ inflight' = Append(inflight,
                          [kind |-> "latest", query |-> "", page |-> page,
                           argQuery |-> "",
                           limit |-> Limit(resultsPerPage),
                           offset |-> Offset(resultsPerPage, page)])
    /\ lastOp' = Op("getLatest", "none", "pending", 0)
    /\ UNCHANGED <<searchResults, pages, resultsPerPage, inodesSynced,
                   totalInodesToSync, subscriptions, initCalls, unhandled,
                   delivered>>

\* A store that drops the response of a query overtaken by a call of `sort`.
QueryResolveUnless(sort, i, data, total) ==
    /\ inflight[i].kind \in {"search", "latest"}
    /\ IF Overtaken(i) = sort
       THEN UNCHANGED <<searchResults, pages>>
       ELSE /\ searchResults' = data
            /\ pages' = PageCount(total, resultsPerPage)
    /\ inflight' = RemoveAt(inflight, i)
    /\ lastOp' = [Op("query", "resolved", "resolved", i)
                    EXCEPT !.data = data, !.total = total,
                           !.after = Overtaken(i)]
    /\ UNCHANGED <<resultsPerPage, inodesSynced, totalInodesToSync,
                   subscriptions, initCalls, unhandled, delivered>>

QueryResolveDropsStale(i, data, total) ==
    QueryResolveUnless("query", i, data, total)

QueryResolveDropsCleared(i, data, total) ==
    QueryResolveUnless("clear", i, data, total)

\* db.search / db.latest resolves with {data, total}: the rest of search /
\* getLatest runs updateSearchResults and the caller's promise resolves.
QueryResolve(i, data, total) ==
    /\ inflight[i].kind \in {"search", "latest"}
    /\ LET new == updateSearchResults([total |-> total, data |-> data],
                                      resultsPerPage)
       IN /\ searchResults' = new[1]
          /\ pages' = new[2]
    /\ inflight' = RemoveAt(inflight, i)
    /\ lastOp' = [Op("query", "resolved", "resolved", i)
                    EXCEPT !.data = data, !.total = total,
                           !.after = Overtaken(i)]
    /\ UNCHANGED <<resultsPerPage, inodesSynced, totalInodesToSync,
                   subscriptions, initCalls, unhandled, delivered>>

QueryRejectResets(i) ==
    /\ inflight[i].kind \in {"search", "latest"}
    /\ searchResults' = <<>>
    /\ pages' = 0
    /\ inflight' = RemoveAt(inflight, i)
    /\ lastOp' = Op("query", "rejected", "rejected", i)
    /\ UNCHANGED <<resultsPerPage, inodesSynced, totalInodesToSync,
                   subscriptions, initCalls, unhandled, delivered>>

\* db.search / db.latest rejects: the await throws out of the async method,
\* whose promise (held by the caller) rejects; nothing after the await runs.
QueryReject(i) ==
    /\ inflight[i].kind \in {"search", "latest"}
    /\ inflight' = RemoveAt(inflight, i)
    /\ lastOp' = Op("query", "rejected", "rejected", i)
    /\ UNCHANGED <<searchResults, pages, resultsPerPage, inodesSynced,
                   totalInodesToSync, subscriptions, initCalls, unhandled,
                   delivered>>

\* clear() up to its await of db.clearData()
CallClear ==
    /\ Len(inflight) < MaxInflight
    /\ inflight' = Append(inflight, [NoCall EXCEPT !.kind = "clearData"])
    /\ lastOp' = Op("clear", "none", "pending", 0)
    /\ UNCHANGED <<searchResults, pages, resultsPerPage, inodesSynced,
                   totalInodesToSync, subscriptions, initCalls, unhandled,
                   delivered>>

ClearResolveResetsSync(i) ==
    /\ inflight[i].kind = "clearData"
    /\ searchResults' = <<>>
    /\ inodesSynced' = InitialSync.inodesSynced
    /\ totalInodesToSync' = InitialSync.totalInodesToSync
    /\ inflight' = RemoveAt(inflight, i)
    /\ lastOp' = Op("clear", "resolved", "resolved", i)
    /\ UNCHANGED <<pages, resultsPerPage, subscriptions, initCalls,
                   unhandled, delivered>>

\* db.clearData() resolves: this.searchResults = []
ClearResolve(i) ==
    /\ inflight[i].kind = "clearData"
    /\ LET new == clearResults(searchResults, pages)
       IN /\ searchResults' = new[1]
          /\ pages' = new[2]
    /\ inflight' = RemoveAt(inflight, i)
    /\ lastOp' = Op("clear", "resolved", "resolved", i)
    /\ UNCHANGED <<resultsPerPage, inodesSynced, totalInodesToSync,
                   subscriptions, initCalls, unhandled, delivered>>

ClearRejectClears(i) ==
    /\ inflight[i].kind = "clearData"
    /\ searchResults' = <<>>
    /\ inflight' = RemoveAt(inflight, i)
    /\ lastOp' = Op("clear", "rejected", "rejected", i)
    /\ UNCHANGED <<pages, resultsPerPage, inodesSynced, totalInodesToSync,
                   subscriptions, initCalls, unhandled, delivered>>

\* db.clearData() rejects: the await throws out of clear(), whose promise
\* rejects; the assignment after the await does not run.
ClearReject(i) ==
    /\ inflight[i].kind = "clearData"
    /\ inflight' = RemoveAt(inflight, i)
    /\ lastOp' = Op("clear", "rejected", "rejected", i)
    /\ UNCHANGED <<searchResults, pages, resultsPerPage, inodesSynced,
                   totalInodesToSync, subscriptions, initCalls, unhandled,
                   delivered>>

Next ==
    \/ CallInit
    \/ \E i \in DOMAIN inflight, s \in Snapshots : GetSyncStateResolve(i, s)
    \/ \E i \in DOMAIN inflight : GetSyncStateReject(i)
    \/ \E err \in BOOLEAN, s \in Snapshots : SyncEvent(err, TRUE, s)
    \/ \E err \in BOOLEAN : SyncEvent(err, FALSE, NoSnapshot)
    \/ \E q \in Queries, p \in PageIndices : CallSearch(q, p)
    \/ \E p \in PageIndices : CallGetLatest(p)
    \/ \E i \in DOMAIN inflight, d \in DataSets, t \in Totals :
           QueryResolve(i, d, t)
    \/ \E i \in DOMAIN inflight : QueryReject(i)
    \/ CallClear
    \/ \E i \in DOMAIN inflight : ClearResolve(i)
    \/ \E i \in DOMAIN inflight : ClearReject(i)

Spec == Init /\ [][Next]_vars

----------------------------------------------------------------------------
\* Properties.

\* C1: every query in flight was dispatched with limit = P and
\* offset = P * i for the page size P and the page index i it was called
\* with (offset is the i-th multiple of P), and search handed the database
\* the query string it was called with.
DispatchedLimitOffset ==
    \A k \in DOMAIN inflight :
        inflight[k].kind \in {"search", "latest"} =>
            /\ inflight[k].limit = resultsPerPage
            /\ inflight[k].offset % resultsPerPage = 0
            /\ inflight[k].offset \div resultsPerPage = inflight[k].page
            /\ inflight[k].kind = "search" =>
                   inflight[k].argQuery = inflight[k].query

DispatchedLimitOffsetWitness ==
    \E k \in DOMAIN inflight, j \in DOMAIN inflight :
        /\ inflight[k].kind = "search"
        /\ inflight[j].kind = "latest"
        /\ inflight[k].page > 0
        /\ inflight[j].page > 0
        /\ resultsPerPage > 1

\* C2: right after a query resolved with {data, total}, searchResults is
\* data and pages is the least n with n * P >= total (so 0 for total = 0);
\* 27 results in pages of 10 are 3 pages.
ResolvedPageCount ==
    /\ PageCount(27, 10) = 3
    /\ (lastOp.op = "query" /\ lastOp.db = "resolved") =>
           /\ searchResults = lastOp.data
           /\ pages * resultsPerPage >= lastOp.total
           /\ pages >= 0
           /\ pages > 0 => (pages - 1) * resultsPerPage < lastOp.total

ResolvedPageCountWitness ==
    /\ lastOp.op = "query"
    /\ lastOp.db = "resolved"
    /\ lastOp.total % resultsPerPage /= 0
    /\ lastOp.total > resultsPerPage
    /\ searchResults /= <<>>

\* C3: right after clear() resolved, searchResults is empty and pages is 0.
ClearResetsPages ==
    (lastOp.op = "clear" /\ lastOp.db = "resolved") =>
        /\ searchResults = <<>>
        /\ pages = 0

\* C4 as stated: inodesSynced <= totalInodesToSync whenever the total is
\* finite, whatever snapshots the database delivers.
SyncedAtMostTotal ==
    IsFinite(totalInodesToSync) => inodesSynced <= totalInodesToSync

\* C4 amended: inodesSynced <= totalInodesToSync whenever the total is
\* finite and the snapshot the database delivered last has
\* numSynced <= total.
SyncedAtMostTotalOfValidSnapshot ==
    (IsFinite(totalInodesToSync) /\ Leq(delivered.numSynced, delivered.total))
        => Leq(inodesSynced, totalInodesToSync)

SyncedAtMostTotalWitness ==
    /\ lastOp.op = "syncEvent"
    /\ lastOp.outcome = "applied"
    /\ lastOp.snap.numSynced < lastOp.snap.total
    /\ IsFinite(totalInodesToSync)
    /\ inodesSynced < totalInodesToSync

\* C5: a step in which the database rejects a search / latest promise leaves
\* searchResults and pages as they were and rejects the promise the caller
\* of search() / getLatest() holds.
QueryRejectionKeepsResults ==
    [][(lastOp'.op = "query" /\ lastOp'.db = "rejected") =>
           /\ searchResults' = searchResults
           /\ pages' = pages
           /\ lastOp'.outcome = "rejected"]_vars

QueryRejectionWitness ==
    /\ lastOp.op = "query"
    /\ lastOp.db = "rejected"
    /\ lastOp.outcome = "rejected"
    /\ searchResults /= <<>>
    /\ pages > 1

\* C6: a step in which the sync callback is called with an error, with or
\* without a snapshot, leaves inodesSynced, totalInodesToSync, searchResults
\* and pages as they were and only warns.
SyncErrorChangesNothing ==
    [][(lastOp'.op = "syncEvent" /\ lastOp'.db = "error") =>
           /\ inodesSynced' = inodesSynced
           /\ totalInodesToSync' = totalInodesToSync
           /\ searchResults' = searchResults
           /\ pages' = pages
           /\ lastOp'.outcome = "warned"]_vars

SyncErrorWitness ==
    /\ lastOp.op = "syncEvent"
    /\ lastOp.db = "error"
    /\ lastOp.hasState
    /\ lastOp.outcome = "warned"
    /\ IsFinite(totalInodesToSync)
    /\ searchResults /= <<>>

\* C7: when getSyncState rejects, the caller of init() gets the rejection.
InitRejectionReachesCaller ==
    (lastOp.op = "getSyncState" /\ lastOp.db = "rejected") =>
        lastOp.outcome = "rejected"

\* C8 as stated: before any operation the store holds inodesSynced = 0,
\* totalInodesToSync = Infinity, no results and pages = 0.
ConstructedWithZeroPages ==
    lastOp.op = "construct" =>
        /\ inodesSynced = 0
        /\ totalInodesToSync = Infinity
        /\ searchResults = <<>>
        /\ pages = 0

\* C8 amended: before any operation the store holds inodesSynced = 0,
\* totalInodesToSync = Infinity, no results and pages = 1.
ConstructedWithOnePage ==
    lastOp.op = "construct" =>
        /\ inodesSynced = 0
        /\ totalInodesToSync = Infinity
        /\ searchResults = <<>>
        /\ pages = 1

ConstructedWitness ==
    /\ lastOp.op = "construct"
    /\ inflight = <<>>
    /\ initCalls = 0

\* C9: the getter is true exactly when the snapshot applied last has
\* numSynced = total; it is false on the constructed store, false once
\* {5, 20} is applied and true once {20, 20} is applied.
CompletionFlagFollowsSnapshot ==
    /\ isDbSyncing <=> (delivered.numSynced = delivered.total)
    /\ lastOp.op = "construct" => ~isDbSyncing
    /\ delivered = [numSynced |-> 5, total |-> 20] => ~isDbSyncing
    /\ delivered = [numSynced |-> 20, total |-> 20] => isDbSyncing

CompletionFlagWitness ==
    /\ lastOp.op = "syncEvent"
    /\ lastOp.outcome = "applied"
    /\ lastOp.snap = [numSynced |-> 20, total |-> 20]
    /\ isDbSyncing

\* C10: a step of clear() other than the one after db.clearData() resolved
\* leaves searchResults and pages as they were, and when db.clearData()
\* rejects, the promise the caller of clear() holds rejects.
ClearRejectionKeepsResults ==
    [][(lastOp'.op = "clear" /\ lastOp'.db /= "resolved") =>
           /\ searchResults' = searchResults
           /\ pages' = pages
           /\ lastOp'.db = "rejected" => lastOp'.outcome = "rejected"]_vars

ClearRejectionWitness ==
    /\ lastOp.op = "clear"
    /\ lastOp.db = "rejected"
    /\ lastOp.outcome = "rejected"
    /\ searchResults /= <<>>

\* C11: right after a query resolved, searchResults and pages are those of
\* its response, also when it was dispatched before the query that resolved
\* in the step before (the later one does not shield the store from it).
LastResolvedWins ==
    (lastOp.op = "query" /\ lastOp.db = "resolved"
        /\ lastOp.after \in {"none", "query"}) =>
        /\ searchResults = lastOp.data
        /\ pages = PageCount(lastOp.total, resultsPerPage)

LastResolvedWinsWitness ==
    /\ lastOp.op = "query"
    /\ lastOp.db = "resolved"
    /\ lastOp.after = "query"
    /\ inflight = <<>>
    /\ searchResults = lastOp.data
    /\ searchResults /= <<>>

\* C12: a step in which the sync callback is called with neither an error
\* nor a snapshot throws and leaves inodesSynced and totalInodesToSync as
\* they were.
MissingSnapshotThrows ==
    [][(lastOp'.op = "syncEvent" /\ lastOp'.db = "event"
           /\ ~lastOp'.hasState) =>
           /\ lastOp'.outcome = "thrown"
           /\ inodesSynced' = inodesSynced
           /\ totalInodesToSync' = totalInodesToSync]_vars

MissingSnapshotWitness ==
    /\ lastOp.op = "syncEvent"
    /\ lastOp.db = "event"
    /\ ~lastOp.hasState
    /\ lastOp.outcome = "thrown"
    /\ inodesSynced = delivered.numSynced
    /\ IsFinite(totalInodesToSync)

\* C13: every step of search(), getLatest() and clear(), dispatching,
\* resolving or rejecting, leaves inodesSynced and totalInodesToSync as they
\* were; a step that changes one of them applies a snapshot.
SyncProgressFrame ==
    [][/\ lastOp'.op \in {"search", "getLatest", "query", "clear"} =>
              /\ inodesSynced' = inodesSynced
              /\ totalInodesToSync' = totalInodesToSync
       /\ (inodesSynced' /= inodesSynced
              \/ totalInodesToSync' /= totalInodesToSync) =>
              /\ lastOp'.op \in {"getSyncState", "syncEvent"}
              /\ lastOp'.outcome = "applied"]_vars

SyncProgressFrameWitness ==
    /\ lastOp.op = "clear"
    /\ lastOp.db = "resolved"
    /\ inodesSynced = 5
    /\ totalInodesToSync = 20

\* C14: when two clear() calls resolve one right after the other, the second
\* resolves too and leaves the result page empty: no results, and pages 0
\* (or the 1 of a constructed store).
ClearTwiceEmptiesPage ==
    [][(lastOp.op = "clear" /\ lastOp.db = "resolved"
           /\ lastOp'.op = "clear" /\ lastOp'.db = "resolved") =>
           /\ lastOp'.outcome = "resolved"
           /\ searchResults' = <<>>
           /\ pages' \in {0, InitialResults.pages}]_vars

\* C15: in every state <<inodesSynced, totalInodesToSync>> is the whole
\* snapshot the database delivered last (or the constructed pair).
SnapshotAppliedWhole ==
    <<inodesSynced, totalInodesToSync>> =
        <<delivered.numSynced, delivered.total>>

SnapshotAppliedWholeWitness ==
    /\ lastOp.op = "syncEvent"
    /\ lastOp.outcome = "applied"
    /\ lastOp.snap = [numSynced |-> 5, total |-> 5]
    /\ inodesSynced = 5
    /\ totalInodesToSync = 5
    /\ \E k \in DOMAIN inflight : inflight[k].kind = "clearData"
    /\ \E k \in DOMAIN inflight : inflight[k].kind \in {"search", "latest"}

\* C16: every step leaves searchResults and pages both as they were, or
\* sets both from the response of the query it resolves, or sets both to
\* their empty state (no results, 0 pages or the constructed 1).
ResultPageReplacedWhole ==
    [][\/ /\ searchResults' = searchResults
          /\ pages' = pages
       \/ /\ lastOp'.op = "query"
          /\ lastOp'.db = "resolved"
          /\ searchResults' = lastOp'.data
          /\ pages' = PageCount(lastOp'.total, resultsPerPage)
       \/ /\ searchResults' = <<>>
          /\ pages' \in {0, InitialResults.pages}]_vars

\* C17: the constructed store is uninitialized (total Infinity, getter
\* false); an applied snapshot with numSynced < total makes the getter false
\* and one with numSynced = total makes it true; an event snapshot with
\* numSynced < total applied while the getter held makes it false again.
CompleteIsNotTerminal ==
    /\ lastOp.op = "construct" =>
           ~IsFinite(totalInodesToSync) /\ ~isDbSyncing
    /\ (lastOp.outcome = "applied"
           /\ lastOp.snap.numSynced < lastOp.snap.total) =>
           inodesSynced < totalInodesToSync /\ ~isDbSyncing
    /\ (lastOp.outcome = "applied"
           /\ lastOp.snap.numSynced = lastOp.snap.total) => isDbSyncing
    /\ (lastOp.op = "syncEvent" /\ lastOp.after = "complete"
           /\ lastOp.snap.numSynced < lastOp.snap.total) => ~isDbSyncing

CompleteIsNotTerminalWitness ==
    /\ lastOp.op = "syncEvent"
    /\ lastOp.outcome = "applied"
    /\ lastOp.after = "complete"
    /\ lastOp.snap = [numSynced |-> 5, total |-> 20]
    /\ ~isDbSyncing

PendingFetches ==
    Cardinality({k \in DOMAIN inflight : inflight[k].kind = "getSyncState"})

\* C18: every init() call is waiting for getSyncState, or has had it
\* rejected, or has registered one callback (so a rejected fetch registers
\* none); while no callback is registered the pair is the constructed one
\* and no sync event has run; a callback exists only once a fetched
\* snapshot made the total finite.
SubscribedOnlyAfterFetch ==
    /\ subscriptions + unhandled + PendingFetches = initCalls
    /\ subscriptions = 0 =>
           /\ inodesSynced = InitialSync.inodesSynced
           /\ totalInodesToSync = InitialSync.totalInodesToSync
           /\ lastOp.op /= "syncEvent"
    /\ subscriptions > 0 => IsFinite(totalInodesToSync)
    /\ (lastOp.op = "getSyncState" /\ lastOp.db = "rejected"
           /\ initCalls = 1) => subscriptions = 0

SubscribedOnlyAfterFetchWitness ==
    /\ lastOp.op = "getSyncState"
    /\ lastOp.db = "rejected"
    /\ unhandled = 1
    /\ subscriptions = 0
    /\ totalInodesToSync = Infinity
    /\ inodesSynced = 0

\* C19: right after a query resolved that was dispatched before the clear()
\* whose purge resolved in the step before, searchResults and pages are
\* those of its response.
ClearKeepsInflightQueries ==
    (lastOp.op = "query" /\ lastOp.db = "resolved"
        /\ lastOp.after = "clear") =>
        /\ searchResults = lastOp.data
        /\ pages = PageCount(lastOp.total, resultsPerPage)

ClearKeepsInflightQueriesWitness ==
    /\ lastOp.op = "query"
    /\ lastOp.db = "resolved"
    /\ lastOp.after = "clear"
    /\ inflight = <<>>
    /\ searchResults /= <<>>
====
